---- MODULE Spec2Model ----
(***************************************************************************)
(* Model of third_party_license_test.py: the run of main() that derives    *)
(* package coordinates from pom/gradle descriptors hosted on github,       *)
(* reconciles them with the declared maven artifacts, resolves a license   *)
(* per package, renders THIRD_PARTY_NOTICES and writes or compares it.     *)
(*                                                                         *)
(* Python str values are TLA+ strings; the str methods the script uses     *)
(* (in, replace, split, endswith, slicing, strip, splitlines) are          *)
(* operators computed character by character.                              *)
(***************************************************************************)
EXTENDS Integers, Sequences, FiniteSets, TLC

(* ---------------------------------------------------------------------- *)
(* Bounds of the model.                                                    *)
(* ---------------------------------------------------------------------- *)

\* Longest MAVEN_ARTIFACTS / ORDERED_POM_OR_GRADLE_FILE_LIST list explored.
MaxLen == 2

\* Number of consecutive invocations of the script explored.
MaxRuns == 2

(* ---------------------------------------------------------------------- *)
(* Python str operations.                                                  *)
(* ---------------------------------------------------------------------- *)

\* s[k:k+len(p)] == p  (1-based k).
MatchAt(s, p, k) ==
  /\ k + Len(p) - 1 <= Len(s)
  /\ SubSeq(s, k, k + Len(p) - 1) = p

\* Index of the first occurrence of p in s at or after k, 0 if none.
RECURSIVE Find(_, _, _)
Find(s, p, k) ==
  IF k + Len(p) - 1 > Len(s) THEN 0
  ELSE IF MatchAt(s, p, k) THEN k
  ELSE Find(s, p, k + 1)

\* p in s
Contains(s, p) == Find(s, p, 1) # 0

\* s.endswith(p)
EndsWith(s, p) ==
  /\ Len(p) <= Len(s)
  /\ SubSeq(s, Len(s) - Len(p) + 1, Len(s)) = p

\* s.split(sep): the pieces between the non-overlapping occurrences of sep,
\* scanned left to right.
RECURSIVE Split(_, _)
Split(s, sep) ==
  LET k == Find(s, sep, 1) IN
  IF k = 0 THEN <<s>>
  ELSE <<SubSeq(s, 1, k - 1)>> \o Split(SubSeq(s, k + Len(sep), Len(s)), sep)

\* s.replace(old, new): every non-overlapping occurrence, left to right.
RECURSIVE Replace(_, _, _)
Replace(s, old, new) ==
  LET k == Find(s, old, 1) IN
  IF k = 0 THEN s
  ELSE SubSeq(s, 1, k - 1) \o new
         \o Replace(SubSeq(s, k + Len(old), Len(s)), old, new)

\* s[:-n]
DropLast(s, n) == SubSeq(s, 1, Len(s) - n)

\* s.strip(c) for a one-character c.
RECURSIVE Strip(_, _)
Strip(s, c) ==
  IF Len(s) > 0 /\ SubSeq(s, 1, 1) = c THEN Strip(SubSeq(s, 2, Len(s)), c)
  ELSE IF Len(s) > 0 /\ SubSeq(s, Len(s), Len(s)) = c
    THEN Strip(SubSeq(s, 1, Len(s) - 1), c)
  ELSE s

\* The non-empty members of a sequence of strings, in order.
RECURSIVE NonEmpty(_)
NonEmpty(parts) ==
  IF parts = <<>> THEN <<>>
  ELSE IF Head(parts) = "" THEN NonEmpty(Tail(parts))
  ELSE <<Head(parts)>> \o NonEmpty(Tail(parts))

\* s.split(): the runs of non-blank characters.
SplitWhitespace(s) == NonEmpty(Split(s, " "))

\* s.splitlines(): the lines of s; a final line break opens no empty line.
SplitLines(s) ==
  LET parts == Split(s, "\n") IN
  IF parts[Len(parts)] = "" THEN SubSeq(parts, 1, Len(parts) - 1) ELSE parts

\* str(list_of_str): "['a', 'b']" (the names hold no quote or backslash).
RECURSIVE JoinRepr(_)
JoinRepr(xs) ==
  IF xs = <<>> THEN ""
  ELSE IF Len(xs) = 1 THEN "'" \o xs[1] \o "'"
  ELSE "'" \o xs[1] \o "', " \o JoinRepr(Tail(xs))

StrOfList(xs) == "[" \o JoinRepr(xs) \o "]"

(* ---------------------------------------------------------------------- *)
(* Constants of the script.                                                *)
(* ---------------------------------------------------------------------- *)

GITHUB_PREFIX == "https://github.com/"
RAW_FILE_PREFIX == "https://raw.githubusercontent.com/"
POM_FILE_SUFFIX == ".xml"
GRADLE_FILE_SUFFIX == ".gradle"
SPACER ==
  "\n\n===============================================================================\n===============================================================================\n===============================================================================\n\n"

branch_roots == <<"master/", "main/">>

license_filenames_copying_first == <<"COPYING", "LICENSE">>
license_filenames_with_notice == <<"LICENSE", "COPYING", "NOTICE">>
license_filenames == <<"LICENSE", "COPYING">>

(* ---------------------------------------------------------------------- *)
(* Values shared by the functions below.                                   *)
(* ---------------------------------------------------------------------- *)

\* Python's None and a present value; Get reads a present value.
None == <<>>
Some(v) == <<v>>
Get(o) == o[1]

\* What a called function does: return a value, or end the process with
\* sys.exit(1) after printing `line`, or with an uncaught exception `exc`
\* (the interpreter prints a traceback to stderr and exits with status 1).
Return(v) == [exit |-> FALSE, value |-> v, line |-> "", exc |-> ""]
SysExit(text) == [exit |-> TRUE, value |-> None, line |-> text, exc |-> ""]
Raise(e) == [exit |-> TRUE, value |-> None, line |-> "", exc |-> e]

\* An HTTP response of requests.get.
Response(code, body) == [status_code |-> code, text |-> body]

\* An element of a parsed XML tree (the namespace of every tag is the maven
\* POM namespace the script looks elements up in).
Element(t, txt, kids) == [tag |-> t, text |-> txt, children |-> kids]

\* Element.find(tag): the first direct child with that tag, or None.
ET_find(e, t) ==
  LET hits == {k \in 1..Len(e.children) : e.children[k].tag = t} IN
  IF hits = {} THEN None
  ELSE Some(e.children[CHOOSE k \in hits : \A j \in hits : k <= j])

\* An insertion-ordered dict: a sequence of [key, value] entries with
\* distinct keys.  d[k] = v replaces the value in place or appends.
DictKeys(d) == {d[k].key : k \in 1..Len(d)}
DictGet(d, key) == (CHOOSE e \in {d[k] : k \in 1..Len(d)} : e.key = key).value
DictSetFirstWins(d, key, v) ==
  IF key \in DictKeys(d) THEN d
  ELSE Append(d, [key |-> key, value |-> v])
DictSet(d, key, v) ==
  IF key \in DictKeys(d)
    THEN [k \in 1..Len(d) |->
            IF d[k].key = key THEN [key |-> key, value |-> v] ELSE d[k]]
  ELSE Append(d, [key |-> key, value |-> v])

(* ---------------------------------------------------------------------- *)
(* The inputs explored: the entries of the two lists of                    *)
(* maven_artifacts.bzl.                                                    *)
(* ---------------------------------------------------------------------- *)

\* Entries of MAVEN_ARTIFACTS: group:artifact[:version].
ArtifactNames == {"g1:a1:1.0", "g2:a2"}

\* Entries of ORDERED_POM_OR_GRADLE_FILE_LIST: a pom and a gradle file at
\* the root of branch main, a pom in directory main/ of branch master, a
\* gradle file under src/main/ of branch main, a pom url with no branch
\* marker, and a file that is neither kind.
DescriptorUrls ==
  {"https://github.com/o/r/blob/main/pom.xml",
   "https://github.com/o/r/blob/main/build.gradle",
   "https://github.com/o/r/blob/master/main/pom.xml",
   "https://github.com/o/r/blob/main/src/main/build.gradle",
   "https://github.com/o/r/pom.xml",
   "https://github.com/o/r/blob/main/NOTES"}

(* ---------------------------------------------------------------------- *)
(* get_file_from_github                                                    *)
(* ---------------------------------------------------------------------- *)

\* The branch marker the rewriting loop stops at: the first of branch_roots
\* that occurs in the url ("" when none does).
RECURSIVE first_branch_root(_, _)
first_branch_root(s, k) ==
  IF k > Len(branch_roots) THEN ""
  ELSE IF Contains(s, branch_roots[k]) THEN branch_roots[k]
  ELSE first_branch_root(s, k + 1)

\* Lines 31-40: the raw-content url requested for a github url; "" when
\* the url holds no branch marker (no request is made then).
rewrite_github_url(github_url) ==
  LET raw_file_url_with_blob ==
        Replace(github_url, GITHUB_PREFIX, RAW_FILE_PREFIX)
      br == first_branch_root(raw_file_url_with_blob, 1)
      split_url == Split(raw_file_url_with_blob, br)
  IN IF br = "" THEN ""
     ELSE DropLast(split_url[1], 5) \o br \o split_url[2]

\* The loop over branch_roots: every marker found in the url overwrites
\* github_root (the loop has no break).
RECURSIVE github_root_loop(_, _, _)
github_root_loop(url, k, github_root) ==
  IF k > Len(branch_roots) THEN github_root
  ELSE LET br == branch_roots[k] IN
    github_root_loop(url, k + 1,
      IF Contains(url, br) THEN Split(url, br)[1] \o br ELSE github_root)

\* The two functions of a url above are computed once for each url the
\* explored lists can lead to, and looked up afterwards.
Lookup(table, key) == (CHOOSE e \in table : e[1] = key)[2]

GithubRoots == {<<u, github_root_loop(u, 1, "")>> : u \in DescriptorUrls}

github_root_of(url) ==
  IF url \in DescriptorUrls THEN Lookup(GithubRoots, url)
  ELSE github_root_loop(url, 1, "")

KnownUrls ==
  DescriptorUrls \cup
    {e[2] \o license_filenames[k] :
       e \in {r \in GithubRoots : r[2] # ""}, k \in 1..Len(license_filenames)}

RawFileUrls == {<<u, rewrite_github_url(u)>> : u \in KnownUrls}

raw_file_url(github_url) ==
  IF github_url \in KnownUrls THEN Lookup(RawFileUrls, github_url)
  ELSE rewrite_github_url(github_url)

\* The value returned, given the response to the request (if one is made).
get_file_from_github(github_url, response) ==
  IF raw_file_url(github_url) = "" THEN None
  ELSE IF response.status_code # 200 THEN None
  ELSE Some(response.text)

(* ---------------------------------------------------------------------- *)
(* Descriptor parsers                                                      *)
(* ---------------------------------------------------------------------- *)

\* The text of a pom with a parent group g and an artifactId a.
PomText(g, a) ==
  "<project xmlns=\"http://maven.apache.org/POM/4.0.0\"><parent><groupId>"
    \o g \o "</groupId></parent><artifactId>" \o a \o "</artifactId></project>"

PomTree(g, a) ==
  Element("project", "",
    <<Element("parent", "", <<Element("groupId", g, <<>>)>>),
      Element("artifactId", a, <<>>)>>)

\* ET.fromstring on the documents served: the tree each one parses to.
ET_fromstring(text) ==
  CASE text = PomText("g1", "a1") -> PomTree("g1", "a1")
    [] text = PomText("g2", "a2") -> PomTree("g2", "a2")

get_pom_artifact_name(pom_xml_github_url, pom_xml_content) ==
  IF pom_xml_content = None
    THEN SysExit("Github Returned Error status when reading : "
                   \o pom_xml_github_url)
  ELSE
    LET root == ET_fromstring(Get(pom_xml_content))
        parent == ET_find(root, "parent")
        group == IF parent = None THEN None
                 ELSE ET_find(Get(parent), "groupId")
        artifact == ET_find(root, "artifactId")
    IN IF parent = None \/ group = None \/ artifact = None
         THEN Raise("AttributeError")
       ELSE Return(Get(group).text \o ":" \o Get(artifact).text)

get_grad_rval(line) ==
  LET words == SplitWhitespace(line) IN Strip(words[Len(words)], "'")

\* The scan of the lines: each matching line overwrites the field.
RECURSIVE gradle_scan(_, _, _)
gradle_scan(lines, group_id, artifact_id) ==
  IF lines = <<>> THEN group_id \o ":" \o artifact_id
  ELSE LET line == Head(lines) IN
    gradle_scan(Tail(lines),
      IF Contains(line, "groupId") THEN get_grad_rval(line) ELSE group_id,
      IF Contains(line, "artifactId") THEN get_grad_rval(line)
      ELSE artifact_id)

get_gradle_artifact_name(url, content) ==
  IF content = None THEN Raise("AttributeError")
  ELSE Return(gradle_scan(SplitLines(Get(content)), "", ""))

(* ---------------------------------------------------------------------- *)
(* License lookup                                                          *)
(* ---------------------------------------------------------------------- *)

get_github_root_url(url) ==
  LET github_root == github_root_of(url) IN
  IF github_root = ""
    THEN SysExit("Cannot find the main branch root directory for the pom/gradle  file:  "
                   \o url)
  ELSE Return(github_root)

\* The probing loop from candidate k on, given the response each request
\* would get; `probes` collects the requests made, in order.
RECURSIVE license_probe(_, _, _, _)
license_probe(github_branch_root, k, responses, probes) ==
  IF k > Len(license_filenames)
    THEN [license_url |-> github_branch_root \o license_filenames[k - 1],
          license_content |-> None, probes |-> probes]
  ELSE
    LET license_url == github_branch_root \o license_filenames[k]
        license_content == get_file_from_github(license_url, responses[k])
        made == Append(probes, [url |-> license_url,
                                response |-> responses[k]])
    IN IF license_content # None
         THEN [license_url |-> license_url,
               license_content |-> license_content, probes |-> made]
       ELSE license_probe(github_branch_root, k + 1, responses, made)

\* get_license_from_pom, given the responses the probes would get.  The
\* value returned is the (license_url, license_content) pair; `probes` is
\* reported beside it.
get_license_from_pom(url, responses) ==
  LET root == get_github_root_url(url) IN
  IF root.exit THEN [result |-> root, probes |-> <<>>]
  ELSE
    LET found == license_probe(root.value, 1, responses, <<>>) IN
    IF found.license_content = None
      THEN [result |->
              SysExit("Cannot get license information for pom/gradle file:  "
                        \o url),
            probes |-> found.probes]
    ELSE [result |-> Return(<<found.license_url, Get(found.license_content)>>),
          probes |-> found.probes]


(* ---------------------------------------------------------------------- *)
(* What github serves.                                                     *)
(* ---------------------------------------------------------------------- *)

SeqsUpTo(S, n) == UNION {[1..k -> S] : k \in 0..n}

\* Bodies served for a pom: the documents of g1:a1 and g2:a2.
PomBodies == {PomText("g1", "a1"), PomText("g2", "a2")}

\* Bodies served for a gradle file: one of g1:a1, and one that sets groupId
\* twice (g2:a2 by the last line that sets it).
GradleBodies ==
  {"groupId 'g1'\nartifactId 'a1'\n",
   "  groupId 'g1'\n  groupId 'g2'\n  artifactId 'a2'\n"}

LicenseBodies == {"MIT", "BSD"}

BodiesFor(github_url) ==
  IF EndsWith(github_url, POM_FILE_SUFFIX) THEN PomBodies
  ELSE IF EndsWith(github_url, GRADLE_FILE_SUFFIX) THEN GradleBodies
  ELSE LicenseBodies

NotFound == Response(404, "")

\* What the notices file holds before the first invocation.
InitialNotices == {""}

(* ---------------------------------------------------------------------- *)
(* State.                                                                  *)
(* ---------------------------------------------------------------------- *)

VARIABLES
  maven_artifacts,            \* ldict['MAVEN_ARTIFACTS']
  pom_gradle_filelist,        \* ldict['ORDERED_POM_OR_GRADLE_FILE_LIST']
  github,                     \* raw url -> the response github gives for it
  notices_file,               \* content of the THIRD_PARTY_NOTICES file
  run,                        \* number of the current invocation
  update,                     \* args.update
  pc,                         \* position of main() in the current invocation
  package_name_to_pom,
  artifact_list_from_github,
  artifact_list_from_maven,
  next_package,               \* index of the license loop
  license_url_to_package,
  license_url_to_content,
  third_party_notices_content,
  stdout,                     \* lines printed by this invocation
  stderr,                     \* name of the uncaught exception, if any
  exit_code,                  \* exit status of this invocation, None if running
  requests,                   \* requests.get calls of this invocation, in order
  writes,                     \* contents written to the notices file, in order
  previous                    \* outcome of the invocation before this one

vars == <<maven_artifacts, pom_gradle_filelist, github, notices_file, run,
          update, pc, package_name_to_pom, artifact_list_from_github,
          artifact_list_from_maven, next_package, license_url_to_package,
          license_url_to_content, third_party_notices_content, stdout,
          stderr, exit_code, requests, writes, previous>>

config == <<maven_artifacts, pom_gradle_filelist>>
locals == <<package_name_to_pom, artifact_list_from_github,
            artifact_list_from_maven, next_package, license_url_to_package,
            license_url_to_content, third_party_notices_content>>

\* The responses github can give for a request of raw url `raw` made for
\* `github_url`: the one it gave before, or else any status and body.
Serve(github_url, raw) ==
  IF raw \in DOMAIN github THEN {github[raw]}
  ELSE {NotFound} \cup {Response(200, b) : b \in BodiesFor(github_url)}

\* A requests.get call as logged: who asked, for which list position.
Request(caller, pos, github_url, response) ==
  [caller |-> caller, pos |-> pos, github_url |-> github_url,
   raw |-> raw_file_url(github_url), status_code |-> response.status_code]

Remember(raw, response) ==
  IF raw \in DOMAIN github THEN github ELSE github @@ (raw :> response)

\* The process ends: sys.exit(code) after printing `lines`, or an uncaught
\* exception.
Exits(code, lines, exc) ==
  /\ pc' = "exited"
  /\ exit_code' = Some(code)
  /\ stdout' = stdout \o lines
  /\ stderr' = exc

Aborts(outcome) ==
  Exits(1, IF outcome.line = "" THEN <<>> ELSE <<outcome.line>>, outcome.exc)

Continues(at) ==
  /\ pc' = at
  /\ UNCHANGED <<exit_code, stdout, stderr>>

Init ==
  /\ maven_artifacts \in SeqsUpTo(ArtifactNames, MaxLen)
  /\ pom_gradle_filelist \in SeqsUpTo(DescriptorUrls, MaxLen)
  /\ github = <<>>
  /\ notices_file \in InitialNotices
  /\ run = 1
  /\ update \in BOOLEAN
  /\ pc = "start"
  /\ package_name_to_pom = <<>>
  /\ artifact_list_from_github = <<>>
  /\ artifact_list_from_maven = <<>>
  /\ next_package = 1
  /\ license_url_to_package = <<>>
  /\ license_url_to_content = <<>>
  /\ third_party_notices_content = ""
  /\ stdout = <<>>
  /\ stderr = ""
  /\ exit_code = None
  /\ requests = <<>>
  /\ writes = <<>>
  /\ previous = None

(* ---------------------------------------------------------------------- *)
(* main()                                                                  *)
(* ---------------------------------------------------------------------- *)

\* len(maven_artifacts) != len(pom_gradle_filelist)
LengthsDifferOnlyIfLonger(a, b) == Len(a) > Len(b)
LengthsDiffer(a, b) == Len(a) # Len(b)

\* Lines 150-168: the lists are loaded and their lengths compared.
LoadLists ==
  /\ pc = "start"
  /\ IF LengthsDiffer(maven_artifacts, pom_gradle_filelist)
       THEN Exits(1, <<"artifact list length and pom/gradle file list length is not equal.  Please check the file : maven_artifacts.bzl">>, "")
     ELSE Continues("descriptors")
  /\ UNCHANGED <<config, github, notices_file, run, update, locals,
                 requests, writes, previous>>

\* Lines 172-183: one iteration of the loop over pom_gradle_filelist.
ReadDescriptor ==
  /\ pc = "descriptors"
  /\ Len(artifact_list_from_github) < Len(pom_gradle_filelist)
  /\ LET pos == Len(artifact_list_from_github) + 1
         url == pom_gradle_filelist[pos]
         raw == raw_file_url(url)
         is_pom == EndsWith(url, POM_FILE_SUFFIX)
         is_gradle == EndsWith(url, GRADLE_FILE_SUFFIX)
     IN
     IF ~is_pom /\ ~is_gradle
       THEN /\ Exits(1, <<"Neither a Pom, nor a Gradle a file found in the list. exiting.">>, "")
            /\ UNCHANGED <<github, requests, package_name_to_pom,
                           artifact_list_from_github>>
     ELSE \E response \in Serve(url, raw) :
       LET content == get_file_from_github(url, response)
           tmp == IF is_pom THEN get_pom_artifact_name(url, content)
                  ELSE get_gradle_artifact_name(url, content)
       IN
       /\ IF raw = "" THEN UNCHANGED <<github, requests>>
          ELSE /\ github' = Remember(raw, response)
               /\ requests' =
                    Append(requests, Request("descriptor", pos, url, response))
       /\ IF tmp.exit
            THEN /\ Aborts(tmp)
                 /\ UNCHANGED <<package_name_to_pom, artifact_list_from_github>>
          ELSE /\ Continues("descriptors")
               /\ artifact_list_from_github' =
                    Append(artifact_list_from_github, tmp.value)
               /\ package_name_to_pom' =
                    DictSet(package_name_to_pom, tmp.value, url)
  /\ UNCHANGED <<config, notices_file, run, update, artifact_list_from_maven,
                 next_package, license_url_to_package, license_url_to_content,
                 third_party_notices_content, writes, previous>>

\* '%s:%s' % (split[0], split[1]) of artifact_name.split(':'); an entry with
\* no colon has no split[1] (IndexError).
truncated_artifact_name(artifact_name) ==
  LET split_artifact_name == Split(artifact_name, ":") IN
  IF Len(split_artifact_name) < 2 THEN Raise("IndexError")
  ELSE Return(split_artifact_name[1] \o ":" \o split_artifact_name[2])

\* artifact_list_from_github != artifact_list_from_maven
ListsDifferAsSets(a, b) ==
  {a[k] : k \in 1..Len(a)} # {b[k] : k \in 1..Len(b)}
ListsDiffer(a, b) == a # b

\* Lines 185-196: the declared names are truncated and the two lists compared.
CompareLists ==
  /\ pc = "descriptors"
  /\ Len(artifact_list_from_github) = Len(pom_gradle_filelist)
  /\ LET truncated == [k \in 1..Len(maven_artifacts) |->
                         truncated_artifact_name(maven_artifacts[k])]
         failed == {k \in 1..Len(truncated) : truncated[k].exit}
         from_maven == [k \in 1..Len(truncated) |-> truncated[k].value]
     IN
     IF failed # {}
       THEN /\ Aborts(truncated[CHOOSE k \in failed : \A j \in failed : k <= j])
            /\ UNCHANGED artifact_list_from_maven
     ELSE /\ artifact_list_from_maven' = from_maven
          /\ IF ListsDiffer(artifact_list_from_github, from_maven)
               THEN Exits(1,
                      <<"Artifact names from github and maven are different.",
                        "Github artifact list:  "
                          \o StrOfList(artifact_list_from_github),
                        "Maven artifact list:  " \o StrOfList(from_maven)>>,
                      "")
             ELSE Continues("licenses")
  /\ UNCHANGED <<config, github, notices_file, run, update,
                 package_name_to_pom, artifact_list_from_github, next_package,
                 license_url_to_package, license_url_to_content,
                 third_party_notices_content, requests, writes, previous>>


\* The github urls get_license_from_pom would probe for a descriptor url.
license_urls(url) ==
  LET root == get_github_root_url(url) IN
  IF root.exit THEN <<>>
  ELSE [k \in 1..Len(license_filenames) |-> root.value \o license_filenames[k]]

\* github after the probes made, and the requests they add to the log.
RECURSIVE RememberAll(_, _)
RememberAll(served, probes) ==
  IF probes = <<>> THEN served
  ELSE LET raw == raw_file_url(Head(probes).url) IN
    RememberAll(IF raw \in DOMAIN served THEN served
                ELSE served @@ (raw :> Head(probes).response),
                Tail(probes))

\* Lines 205-209: the package is filed under its license url.
file_package_prepending(by_url, license_url, package) ==
  IF license_url \in DictKeys(by_url)
    THEN DictSet(by_url, license_url,
                 <<package>> \o DictGet(by_url, license_url))
  ELSE DictSet(by_url, license_url, <<package>>)
file_package(by_url, license_url, package) ==
  IF license_url \in DictKeys(by_url)
    THEN DictSet(by_url, license_url,
                 Append(DictGet(by_url, license_url), package))
  ELSE DictSet(by_url, license_url, <<package>>)

file_content(by_url, license_url, license_content) ==
  IF license_url \in DictKeys(by_url) THEN by_url
  ELSE DictSet(by_url, license_url, license_content)

\* Lines 201-209: one iteration of the loop over artifact_list_from_github.
ResolveLicense ==
  /\ pc = "licenses"
  /\ next_package <= Len(artifact_list_from_github)
  /\ LET package == artifact_list_from_github[next_package]
         url == DictGet(package_name_to_pom, package)
         candidates == license_urls(url)
     IN
     \E responses \in
          {rs \in [1..Len(candidates) ->
                     UNION {Serve(candidates[k], raw_file_url(candidates[k]))
                              : k \in 1..Len(candidates)}] :
             \A k \in 1..Len(candidates) :
               rs[k] \in Serve(candidates[k], raw_file_url(candidates[k]))} :
       LET got == get_license_from_pom(url, responses)
           made == [k \in 1..Len(got.probes) |->
                      Request("license", next_package, got.probes[k].url,
                              got.probes[k].response)]
       IN
       /\ github' = RememberAll(github, got.probes)
       /\ requests' = requests \o made
       /\ IF got.result.exit
            THEN /\ Aborts(got.result)
                 /\ UNCHANGED <<next_package, license_url_to_package,
                                license_url_to_content>>
          ELSE
            LET license_url == got.result.value[1]
                license_content == got.result.value[2]
            IN
            /\ Continues("licenses")
            /\ next_package' = next_package + 1
            /\ license_url_to_package' =
                 file_package(license_url_to_package, license_url, package)
            /\ license_url_to_content' =
                 file_content(license_url_to_content, license_url,
                              license_content)
  /\ UNCHANGED <<config, notices_file, run, update, package_name_to_pom,
                 artifact_list_from_github, artifact_list_from_maven,
                 third_party_notices_content, writes, previous>>

\* Lines 212-219: the blocks of the notices, one per license url, in the
\* order of the dict.
RECURSIVE render_notices(_, _, _)
render_notices(by_url, content_by_url, k) ==
  IF k > Len(by_url) THEN ""
  ELSE "License for package(s): " \o StrOfList(by_url[k].value)
         \o "\n\n"
         \o DictGet(content_by_url, by_url[k].key)
         \o SPACER
         \o render_notices(by_url, content_by_url, k + 1)

CreateNotices ==
  /\ pc = "licenses"
  /\ next_package > Len(artifact_list_from_github)
  /\ third_party_notices_content' =
       render_notices(license_url_to_package, license_url_to_content, 1)
  /\ Continues("notices")
  /\ UNCHANGED <<config, github, notices_file, run, update,
                 package_name_to_pom, artifact_list_from_github,
                 artifact_list_from_maven, next_package,
                 license_url_to_package, license_url_to_content, requests,
                 writes, previous>>

\* Lines 222-239: the notices file is written (--update) or compared.
DriftLines ==
  <<"Changes detected in THIRD_PARTY_NOTICES file!",
    "Please run the following command to update the license file: \n",
    " python3 \\",
    "     third_party/third_party_license_test.py \\",
    "     third_party/maven_artifacts.bzl \\",
    "     third_party/THIRD_PARTY_NOTICES --update">>

\* Lines 223-225: the content of the file after open(path, 'w'), write.
file_appended(old, content) == old \o content
file_written(old, content) == content

\* Line 230: old_third_party_notices_content == third_party_notices_content
notices_start_alike(old, content) == SubSeq(content, 1, Len(old)) = old
notices_equal(old, content) == old = content

WriteOrCompare ==
  /\ pc = "notices"
  /\ IF update
       THEN /\ notices_file' =
                 file_written(notices_file, third_party_notices_content)
            /\ writes' = Append(writes, third_party_notices_content)
            /\ Exits(0, <<>>, "")
     ELSE /\ UNCHANGED <<notices_file, writes>>
          /\ IF notices_equal(notices_file, third_party_notices_content)
               THEN Exits(0, <<>>, "")
             ELSE Exits(1, DriftLines, "")
  /\ UNCHANGED <<config, github, run, update, locals, requests, previous>>

\* The script is invoked again, with or without --update, on the same
\* maven_artifacts.bzl and with github serving what it served before.
RunAgain ==
  /\ pc = "exited"
  /\ run < MaxRuns
  /\ run' = run + 1
  /\ update' \in BOOLEAN
  /\ previous' = Some([update |-> update, exit_code |-> Get(exit_code),
                       writes |-> writes])
  /\ pc' = "start"
  /\ package_name_to_pom' = <<>>
  /\ artifact_list_from_github' = <<>>
  /\ artifact_list_from_maven' = <<>>
  /\ next_package' = 1
  /\ license_url_to_package' = <<>>
  /\ license_url_to_content' = <<>>
  /\ third_party_notices_content' = ""
  /\ stdout' = <<>>
  /\ stderr' = ""
  /\ exit_code' = None
  /\ requests' = <<>>
  /\ writes' = <<>>
  /\ UNCHANGED <<config, github, notices_file>>


Next ==
  \/ LoadLists
  \/ ReadDescriptor
  \/ CompareLists
  \/ ResolveLicense
  \/ CreateNotices
  \/ WriteOrCompare
  \/ RunAgain

Spec == Init /\ [][Next]_vars

(* ---------------------------------------------------------------------- *)
(* Vocabulary of the properties.                                           *)
(* ---------------------------------------------------------------------- *)

Exited == pc = "exited"
ExitedWith(code) == Exited /\ exit_code = Some(code)

\* The requests made so far by one caller, and those for one list position.
RequestsOf(caller) == SelectSeq(requests, LAMBDA r : r.caller = caller)
LicenseRequestsAt(p) ==
  SelectSeq(requests, LAMBDA r : r.caller = "license" /\ r.pos = p)

\* A declared name cut to its first two colon-delimited segments.
DeclaredCoordinate(name) ==
  LET parts == Split(name, ":") IN parts[1] \o ":" \o parts[2]

\* Every descriptor has been read and, position by position, the coordinate
\* derived from it is the declared one.
Reconciled ==
  /\ Len(maven_artifacts) = Len(pom_gradle_filelist)
  /\ Len(artifact_list_from_github) = Len(pom_gradle_filelist)
  /\ \A k \in 1..Len(pom_gradle_filelist) :
       artifact_list_from_github[k] = DeclaredCoordinate(maven_artifacts[k])

\* A line this invocation has printed.
Printed(text) == \E k \in 1..Len(stdout) : stdout[k] = text

\* Nothing of the later stages has happened in this invocation.
NothingResolved ==
  /\ RequestsOf("license") = <<>>
  /\ license_url_to_package = <<>>
  /\ third_party_notices_content = ""
  /\ writes = <<>>

(* ---------------------------------------------------------------------- *)
(* C1                                                                      *)
(* ---------------------------------------------------------------------- *)

\* C1: without --update no step of main() writes the notices file; with
\* --update the step after the notices are rendered writes the file, which
\* then holds exactly the rendered notices, whatever it held before.
C1_WritesOnlyAndAlwaysOnUpdate ==
  [][ /\ (~update => UNCHANGED <<notices_file, writes>>)
      /\ (update /\ pc = "notices" =>
            /\ writes' = Append(writes, third_party_notices_content)
            /\ notices_file' = third_party_notices_content) ]_vars

\* An --update run has rewritten a file that already held the same notices.
C1_Witness ==
  /\ update
  /\ ExitedWith(0)
  /\ third_party_notices_content # ""
  /\ writes = <<third_party_notices_content>>
  /\ previous # None
  /\ Get(previous).writes = <<third_party_notices_content>>

(* ---------------------------------------------------------------------- *)
(* C2                                                                      *)
(* ---------------------------------------------------------------------- *)

\* C2: when the two lists differ in length, the run has exited with status
\* 1 as soon as it has left its start, and no request was ever made, nothing
\* was rendered and nothing written, with or without --update.
C2_LengthMismatchFailsFirst ==
  (Len(maven_artifacts) # Len(pom_gradle_filelist) /\ pc # "start") =>
    /\ ExitedWith(1)
    /\ requests = <<>>
    /\ github = <<>>
    /\ artifact_list_from_github = <<>>
    /\ NothingResolved

\* An --update run on a longer descriptor list has failed.
C2_Witness ==
  /\ update
  /\ Len(maven_artifacts) < Len(pom_gradle_filelist)
  /\ ExitedWith(1)
  /\ stdout # <<>>

(* ---------------------------------------------------------------------- *)
(* C3                                                                      *)
(* ---------------------------------------------------------------------- *)

\* C3: a run is past the comparison of the lists (it resolves licenses, has
\* rendered, written, or exited with status 0) only if the coordinates are
\* equal position by position; a run that exited without that has status 1
\* and has resolved, rendered and written nothing.
C3_PositionalReconciliation ==
  /\ (pc \in {"licenses", "notices"} \/ ExitedWith(0) \/ ~NothingResolved)
       => Reconciled
  /\ (Exited /\ ~Reconciled) => (ExitedWith(1) /\ NothingResolved)

\* A run has failed on lists that hold the same coordinates in another order.
C3_Witness ==
  /\ ExitedWith(1)
  /\ Len(artifact_list_from_github) = 2
  /\ Len(maven_artifacts) = 2
  /\ artifact_list_from_github[1] = DeclaredCoordinate(maven_artifacts[2])
  /\ artifact_list_from_github[2] = DeclaredCoordinate(maven_artifacts[1])
  /\ artifact_list_from_github[1] # artifact_list_from_github[2]
  /\ NothingResolved

(* ---------------------------------------------------------------------- *)
(* C4                                                                      *)
(* ---------------------------------------------------------------------- *)

Coordinates == {artifact_list_from_github[k] :
                  k \in 1..Len(artifact_list_from_github)}

\* C4 as stated: after a successful reconciliation package_name_to_pom has
\* as many entries as the lists have elements, also when the descriptor
\* references of the list are all different and two of them derive the
\* same coordinate.
C4_OneEntryPerElement ==
  (/\ pc = "licenses"
   /\ \A j, k \in 1..Len(pom_gradle_filelist) :
        j # k => pom_gradle_filelist[j] # pom_gradle_filelist[k])
    => Len(package_name_to_pom) = Len(pom_gradle_filelist)

\* C4 as amended: lists whose coordinates match position by position pass
\* the comparison, and package_name_to_pom has one entry per distinct
\* derived coordinate, mapped to the last descriptor reference that derived
\* it; it has as many entries as the lists have elements exactly when the
\* coordinates are pairwise distinct.
C4_OneEntryPerCoordinate ==
  LET n == Len(artifact_list_from_github) IN
  /\ (Reconciled /\ pc # "descriptors") =>
       /\ artifact_list_from_maven = artifact_list_from_github
       /\ ~Printed("Artifact names from github and maven are different.")
       /\ stderr = ""
  /\ DictKeys(package_name_to_pom) = Coordinates
  /\ Len(package_name_to_pom) = Cardinality(Coordinates)
  /\ \A k \in 1..n :
       (\A j \in (k + 1)..n :
          artifact_list_from_github[j] # artifact_list_from_github[k])
       => DictGet(package_name_to_pom, artifact_list_from_github[k])
            = pom_gradle_filelist[k]
  /\ (pc = "licenses" =>
        (Len(package_name_to_pom) = Len(pom_gradle_filelist)
           <=> Cardinality(Coordinates) = Len(artifact_list_from_github)))

\* A reconciled run whose lists name one coordinate at two positions, with
\* two different descriptors.
C4_Witness ==
  /\ pc = "licenses"
  /\ Len(pom_gradle_filelist) = 2
  /\ pom_gradle_filelist[1] # pom_gradle_filelist[2]
  /\ artifact_list_from_github[1] = artifact_list_from_github[2]
  /\ Len(package_name_to_pom) = 1
  /\ package_name_to_pom[1].value = pom_gradle_filelist[2]

(* ---------------------------------------------------------------------- *)
(* C5                                                                      *)
(* ---------------------------------------------------------------------- *)

\* The license location each resolved list position was given: the url of
\* the last probe made for it.
ResolvedAt(p) ==
  LET probes == LicenseRequestsAt(p) IN probes[Len(probes)].github_url

Locations == [p \in 1..(next_package - 1) |-> ResolvedAt(p)]

\* The first occurrences of the members of a sequence, in order.
RECURSIVE FirstSeen(_)
FirstSeen(xs) ==
  IF xs = <<>> THEN <<>>
  ELSE LET front == FirstSeen(SubSeq(xs, 1, Len(xs) - 1))
           last == xs[Len(xs)]
       IN IF \E k \in 1..Len(front) : front[k] = last THEN front
          ELSE Append(front, last)

\* The coordinates of the positions resolved to a location, in list order.
RECURSIVE PackagesUpTo(_, _)
PackagesUpTo(location, p) ==
  IF p = 0 THEN <<>>
  ELSE IF Locations[p] = location
    THEN Append(PackagesUpTo(location, p - 1), artifact_list_from_github[p])
  ELSE PackagesUpTo(location, p - 1)

PackagesAt(location) == PackagesUpTo(location, next_package - 1)

\* The notices the resolved positions call for, block by block.
RECURSIVE NoticesFor(_)
NoticesFor(locations) ==
  IF locations = <<>> THEN ""
  ELSE "License for package(s): " \o StrOfList(PackagesAt(Head(locations)))
         \o "\n\n" \o github[raw_file_url(Head(locations))].text \o SPACER
         \o NoticesFor(Tail(locations))

\* The blocks of license_url_to_package are those of the distinct resolved
\* locations, in the order the locations were first resolved.
BlocksInFirstResolvedOrder ==
  [k \in 1..Len(license_url_to_package) |-> license_url_to_package[k].key]
    = FirstSeen(Locations)

\* C5 as stated: one block per license location, in first-resolved order,
\* and no block lists a package twice.
C5_EachPackageOnce ==
  /\ BlocksInFirstResolvedOrder
  /\ \A k \in 1..Len(license_url_to_package) :
       LET packages == license_url_to_package[k].value IN
       \A i, j \in 1..Len(packages) : i # j => packages[i] # packages[j]

\* C5 as amended: one block per license location, in first-resolved order;
\* a block lists the coordinate of every list position resolved to its
\* location, once per position and in list order; the rendered notices are
\* these blocks, each with the text served at its location.
C5_OneBlockPerLocation ==
  /\ BlocksInFirstResolvedOrder
  /\ \A k \in 1..Len(license_url_to_package) :
       license_url_to_package[k].value
         = PackagesAt(license_url_to_package[k].key)
  /\ (pc = "notices" \/ ExitedWith(0)) =>
       third_party_notices_content = NoticesFor(FirstSeen(Locations))

\* Two different packages have been merged into one block of the rendered
\* notices.
C5_Witness ==
  /\ pc = "notices"
  /\ Len(license_url_to_package) = 1
  /\ Len(license_url_to_package[1].value) = 2
  /\ license_url_to_package[1].value[1] # license_url_to_package[1].value[2]
  /\ third_party_notices_content # ""

(* ---------------------------------------------------------------------- *)
(* C6                                                                      *)
(* ---------------------------------------------------------------------- *)

\* The descriptor whose license is looked up for list position p.
DescriptorAt(p) == DictGet(package_name_to_pom, artifact_list_from_github[p])

\* C6: for every list position whose license has been looked up, the first
\* probe is root+LICENSE; a second probe is made only after LICENSE was
\* absent, and is root+COPYING; the package is filed under the location of
\* the first probe that was served, with the text served there; and when
\* neither was served the run has ended with status 1 and the "Cannot get
\* license" diagnostic.
C6_LicenseThenCopying ==
  \A p \in 1..Len(artifact_list_from_github) :
    LET probes == LicenseRequestsAt(p)
        root == github_root_of(DescriptorAt(p))
        last == probes[Len(probes)]
    IN
    /\ p < next_package => probes # <<>>
    /\ probes # <<>> =>
         /\ probes[1].github_url = root \o "LICENSE"
         /\ Len(probes) <= 2
         /\ probes[1].status_code = 200 => Len(probes) = 1
         /\ Len(probes) = 2 => probes[2].github_url = root \o "COPYING"
         /\ IF last.status_code = 200
              THEN /\ p < next_package
                   /\ last.github_url \in DictKeys(license_url_to_package)
                   /\ \E k \in 1..Len(DictGet(license_url_to_package,
                                              last.github_url)) :
                        DictGet(license_url_to_package, last.github_url)[k]
                          = artifact_list_from_github[p]
                   /\ DictGet(license_url_to_content, last.github_url)
                        = github[last.raw].text
            ELSE /\ Len(probes) = 2
                 /\ p = next_package
                 /\ ExitedWith(1)
                 /\ Printed("Cannot get license information for pom/gradle file:  "
                              \o DescriptorAt(p))

\* A package has been filed under COPYING after LICENSE was absent.
C6_Witness ==
  /\ pc = "licenses"
  /\ next_package = 2
  /\ Len(LicenseRequestsAt(1)) = 2
  /\ LicenseRequestsAt(1)[1].status_code = 404
  /\ LicenseRequestsAt(1)[2].status_code = 200
  /\ EndsWith(license_url_to_package[1].key, "COPYING")

(* ---------------------------------------------------------------------- *)
(* C7                                                                      *)
(* ---------------------------------------------------------------------- *)

\* The run has ended at the descriptor of list position p, whose fetch
\* was absent (no request could be made, or github did not answer 200).
EndedAtAbsentDescriptor(p) ==
  LET url == pom_gradle_filelist[p] IN
  /\ Exited
  /\ Len(maven_artifacts) = Len(pom_gradle_filelist)
  /\ p = Len(artifact_list_from_github) + 1
  /\ EndsWith(url, POM_FILE_SUFFIX) \/ EndsWith(url, GRADLE_FILE_SUFFIX)
  /\ \/ raw_file_url(url) = ""
     \/ /\ raw_file_url(url) \in DOMAIN github
        /\ github[raw_file_url(url)].status_code # 200

\* C7: a run that ended at a descriptor whose fetch was absent, pom or
\* gradle, has status 1, has printed a line naming the descriptor's
\* location, and its last request, if any, is the one for that descriptor.
C7_AbsentDescriptorIsDiagnosed ==
  \A p \in 1..Len(pom_gradle_filelist) :
    EndedAtAbsentDescriptor(p) =>
      /\ ExitedWith(1)
      /\ \E k \in 1..Len(stdout) : Contains(stdout[k], pom_gradle_filelist[p])
      /\ RequestsOf("license") = <<>>
      /\ writes = <<>>

(* ---------------------------------------------------------------------- *)
(* C8                                                                      *)
(* ---------------------------------------------------------------------- *)

\* C8: the requests of a run are the descriptor requests, one per
\* reference in list order, followed by the license requests; a license
\* request is made only once every descriptor was requested and the lists
\* reconcile; the license requests go through the list positions in order,
\* one or two per position (LICENSE, then COPYING), and a run that ends
\* with status 0 has made them for every position.
C8_RequestsInInputOrder ==
  LET descriptor == RequestsOf("descriptor")
      license == RequestsOf("license")
  IN
  /\ requests = descriptor \o license
  /\ Len(descriptor) <= Len(pom_gradle_filelist)
  /\ Len(descriptor) \in {Len(artifact_list_from_github),
                          Len(artifact_list_from_github) + 1}
  /\ \A k \in 1..Len(descriptor) :
       /\ descriptor[k].pos = k
       /\ descriptor[k].github_url = pom_gradle_filelist[k]
  /\ license # <<>> =>
       /\ Len(descriptor) = Len(pom_gradle_filelist)
       /\ Reconciled
       /\ license[1].pos = 1
  /\ \A k \in 1..(Len(license) - 1) :
       license[k + 1].pos \in {license[k].pos, license[k].pos + 1}
  /\ \A p \in 1..Len(pom_gradle_filelist) :
       LET probes == LicenseRequestsAt(p) IN
       /\ Len(probes) <= 2
       /\ p < next_package => Len(probes) >= 1
       /\ Len(probes) >= 1 => EndsWith(probes[1].github_url, "/LICENSE")
       /\ Len(probes) >= 2 => EndsWith(probes[2].github_url, "/COPYING")
  /\ ExitedWith(0) =>
       /\ Len(descriptor) = Len(pom_gradle_filelist)
       /\ next_package = Len(pom_gradle_filelist) + 1

\* A run over two references has ended with status 0 after two descriptor
\* requests and three license requests.
C8_Witness ==
  /\ ExitedWith(0)
  /\ Len(pom_gradle_filelist) = 2
  /\ Len(RequestsOf("descriptor")) = 2
  /\ Len(RequestsOf("license")) = 3
  /\ Len(LicenseRequestsAt(2)) = 2

(* ---------------------------------------------------------------------- *)
(* C9                                                                      *)
(* ---------------------------------------------------------------------- *)

\* The branch marker get_file_from_github picks when it rewrites a url.
RewriteMarker(github_url) ==
  first_branch_root(Replace(github_url, GITHUB_PREFIX, RAW_FILE_PREFIX), 1)

\* C9: for every license request made, the root the license url was built
\* on is the descriptor reference up to and including the marker that the
\* rewriting of the license url picks; and a reference with no marker makes
\* get_github_root_url end the run with its own diagnostic.
C9_RootCutsAtRewriteMarker ==
  /\ \A k \in 1..Len(requests) :
       requests[k].caller = "license" =>
         LET url == DescriptorAt(requests[k].pos)
             marker == RewriteMarker(requests[k].github_url)
         IN github_root_of(url) = Split(url, marker)[1] \o marker
  /\ \A k \in 1..Len(pom_gradle_filelist) :
       LET url == pom_gradle_filelist[k] IN
       (\A j \in 1..Len(branch_roots) : ~Contains(url, branch_roots[j])) =>
         /\ get_github_root_url(url).exit
         /\ get_github_root_url(url).line =
              "Cannot find the main branch root directory for the pom/gradle  file:  "
                \o url

(* ---------------------------------------------------------------------- *)
(* C10                                                                     *)
(* ---------------------------------------------------------------------- *)

====
